---- MODULE Spec2Model ----
(***************************************************************************)
(* bbbattendance.py: extraction of attendance events from a BigBlueButton  *)
(* log.  read_data selects the log lines that carry one of four markers,   *)
(* parse_data turns each selected line into a record (Date, Time, Room,    *)
(* User, Event), and the main program exits early when the log file is     *)
(* missing or holds no event.                                              *)
(*                                                                         *)
(* A log line is modelled as its first 30 characters (a tuple of one-      *)
(* character strings, so that line[0:29] and the timestamp parser work on  *)
(* characters) followed by a sequence of tokens: plain words, the data=    *)
(* marker, and JSON values.                                                *)
(***************************************************************************)
EXTENDS Integers, Sequences, FiniteSets, TLC

VARIABLES
    pc,                 \* position of the main program
    py_version,         \* sys.version_info[0:2]
    iso8601,            \* TRUE when the iso8601 module can be imported
    glibc,              \* TRUE when strftime is the C library's of glibc
    argv,               \* command line: [date, room, user, outfile]
    file,               \* the log file: [status, lines]
    req_date, req_room, req_user, outfile,
    raw_attendance,     \* main: result of read_data
    lines_left,         \* parse_data: lines the for loop has not reached yet
    records,            \* parse_data: its local list parsed_attendance
    evuser,             \* parse_data: its local evuser, [bound, val]
    parsed_attendance,  \* main: result of parse_data, [bound, val]
    parse_calls,        \* number of calls of parse_data so far
    report,             \* rows written to the report file
    exception,          \* the exception that ended the run, or "none"
    exit_code           \* -1 while running

vars == <<pc, py_version, iso8601, glibc, argv, file, req_date, req_room,
          req_user, outfile, raw_attendance, lines_left, records, evuser,
          parsed_attendance, parse_calls, report, exception, exit_code>>

-----------------------------------------------------------------------------
(* Bounds *)

\* Longest log file (in lines) of the main program's runs.
MaxLines == 2

\* Longest list of matched lines handed to parse_data on its own.
MaxMatched == 2

-----------------------------------------------------------------------------
(* Default configuration *)

def_output_basename == "bbb-report"

\* dt.date.today(), on the day of the run
def_date == "2021-03-04"

def_room == ""

def_user == ""

-----------------------------------------------------------------------------
(* Characters and strings *)

Digits == <<"0", "1", "2", "3", "4", "5", "6", "7", "8", "9">>

IsDigit(c) == \E d \in 1..10 : Digits[d] = c

DigitVal(c) == (CHOOSE d \in 1..10 : Digits[d] = c) - 1

\* int() of the characters s[a..b], all of them digits
RECURSIVE Number(_, _, _)
Number(s, a, b) ==
    IF b < a THEN 0 ELSE Number(s, a, b - 1) * 10 + DigitVal(s[b])

AllDigits(s, a, b) == \A i \in a..b : IsDigit(s[i])

\* The characters of chars as one string
RECURSIVE Join(_)
Join(chars) ==
    IF chars = <<>> THEN "" ELSE Head(chars) \o Join(Tail(chars))

Min(a, b) == IF a < b THEN a ELSE b

\* s[a:b] of Python, for 0 <= a <= b
Slice(s, a, b) == SubSeq(s, a + 1, Min(b, Len(s)))

\* "%02d" % n
Pad2(n) == IF n < 10 THEN "0" \o ToString(n) ELSE ToString(n)

\* "%04d" % n
Pad4(n) ==
    IF n < 10 THEN "000" \o ToString(n)
    ELSE IF n < 100 THEN "00" \o ToString(n)
    ELSE IF n < 1000 THEN "0" \o ToString(n)
    ELSE ToString(n)

-----------------------------------------------------------------------------
(* Timestamps *)

IsLeap(y) == (y % 4 = 0) /\ ((y % 100 # 0) \/ (y % 400 = 0))

DaysInMonth(y, m) ==
    IF m = 2 THEN (IF IsLeap(y) THEN 29 ELSE 28)
    ELSE IF m \in {4, 6, 9, 11} THEN 30
    ELSE 31

NoTimestamp ==
    [ok |-> FALSE, year |-> 0, month |-> 0, day |-> 0, hour |-> 0,
     minute |-> 0, second |-> 0, millis |-> 0, tzsign |-> "+",
     tzhour |-> 0, tzminute |-> 0]

\* The fields of a string of the form YYYY-MM-DDxHH:MM:SS.fff+HH:MM, where x
\* is any character when anysep holds and T or a space otherwise.  The
\* result is ok when the string has that form and the fields are in the
\* ranges the datetime constructor accepts.
ParseTimestamp(s, anysep) ==
    IF /\ Len(s) = 29
       /\ AllDigits(s, 1, 4) /\ s[5] = "-" /\ AllDigits(s, 6, 7)
       /\ s[8] = "-" /\ AllDigits(s, 9, 10)
       /\ (anysep \/ s[11] \in {"T", " "})
       /\ AllDigits(s, 12, 13) /\ s[14] = ":" /\ AllDigits(s, 15, 16)
       /\ s[17] = ":" /\ AllDigits(s, 18, 19) /\ s[20] = "."
       /\ AllDigits(s, 21, 23) /\ s[24] \in {"+", "-"}
       /\ AllDigits(s, 25, 26) /\ s[27] = ":" /\ AllDigits(s, 28, 29)
    THEN LET t == [ok |-> TRUE,
                   year |-> Number(s, 1, 4), month |-> Number(s, 6, 7),
                   day |-> Number(s, 9, 10), hour |-> Number(s, 12, 13),
                   minute |-> Number(s, 15, 16),
                   second |-> Number(s, 18, 19),
                   millis |-> Number(s, 21, 23), tzsign |-> s[24],
                   tzhour |-> Number(s, 25, 26),
                   tzminute |-> Number(s, 28, 29)]
         IN  IF /\ t.year \in 1..9999 /\ t.month \in 1..12
                /\ t.day \in 1..DaysInMonth(t.year, t.month)
                /\ t.hour \in 0..23 /\ t.minute \in 0..59
                /\ t.second \in 0..59
                /\ t.tzhour * 60 + t.tzminute < 24 * 60
             THEN t ELSE NoTimestamp
    ELSE NoTimestamp

\* datetime.datetime.fromisoformat: any single character may separate the
\* date from the time
fromisoformat(s) == ParseTimestamp(s, TRUE)

\* iso8601.parse_date: the separator is T or a space
parse_date(s) == ParseTimestamp(s, FALSE)

\* strftime("%Y"): the C library of glibc does not pad a year below 1000
StrftimeYear(year, padded) ==
    IF padded THEN Pad4(year) ELSE ToString(year)

\* timestamp.strftime('%Y-%m-%d'): the fields as parsed, in the timestamp's
\* own time zone
StrftimeDate(t, padded) ==
    StrftimeYear(t.year, padded) \o "-" \o Pad2(t.month) \o "-" \o Pad2(t.day)

\* timestamp.strftime('%H:%M')
StrftimeTime(t) == Pad2(t.hour) \o ":" \o Pad2(t.minute)

-----------------------------------------------------------------------------
(* Log lines *)

\* The payload of a line with no JSON object in it
NoObject == [x \in {} |-> ""]

Word(w) == [k |-> "word", w |-> w, o |-> NoObject]

\* The text data=
DataEq == [k |-> "data=", w |-> "data=", o |-> NoObject]

\* The text of a JSON object with the members of o
Json(o) == [k |-> "object", w |-> "", o |-> o]

\* The text of a JSON array
JsonArray == [k |-> "array", w |-> "", o |-> NoObject]

Line(head, body) == [head |-> head, body |-> body]

\* The strings that occur in the text of a token
TokenText(tok) ==
    IF tok.k = "object" THEN {tok.o[f] : f \in DOMAIN tok.o} ELSE {tok.w}

\* re.search(".*(a|b|c|d).*", line) for the set alternatives of a, b, c, d:
\* one of them occurs in the line
Search(alternatives, line) ==
    \E i \in 1..Len(line.body) :
        TokenText(line.body[i]) \cap alternatives # {}

-----------------------------------------------------------------------------
(* read_data *)

pattern_mutant ==
    {"user_joined_message", "user_left_message", "meeting_started"}

\* The alternatives of read_data's regular expression
pattern ==
    {"user_joined_message", "user_left_message", "meeting_started",
     "meeting_ended"}

\* The for loop of read_data over the lines of the log
RECURSIVE read_lines(_, _)
read_lines(log, acc) ==
    IF log = <<>> THEN acc
    ELSE read_lines(Tail(log),
                    IF Search(pattern, Head(log)) THEN Append(acc, Head(log))
                    ELSE acc)

\* read_data(logfile) on a file that opens
read_data(log) == read_lines(log, <<>>)

-----------------------------------------------------------------------------
(* parse_data: one line *)

\* line[0:29]
PrefixLen == 29

Unbound == [bound |-> FALSE, val |-> ""]

Bound(v) == [bound |-> TRUE, val |-> v]

NoRecord ==
    [Date |-> "", Time |-> "", Room |-> "", User |-> "", Event |-> ""]

NoException == [type |-> "none", arg |-> ""]

Raise(type, arg, ev) ==
    [exc |-> [type |-> type, arg |-> arg], rec |-> NoRecord, evuser |-> ev]

\* re.compile('data=(.*)').search(line): the position of the first data=
\* in the line, 0 when there is none
SearchData(body) ==
    IF \E i \in 1..Len(body) : body[i].k = "data="
    THEN CHOOSE i \in 1..Len(body) :
            /\ body[i].k = "data="
            /\ \A j \in 1..(i - 1) : body[j].k # "data="
    ELSE 0

\* .group(1): everything after that data= up to the end of the line
Group1(body, at) == SubSeq(body, at + 1, Len(body))

\* json.loads(payload) succeeds when payload is the text of one JSON value
IsJson(payload) ==
    Len(payload) = 1 /\ payload[1].k \in {"object", "array"}

ParsePrefix(prefix, has_fromisoformat) ==
    IF has_fromisoformat THEN fromisoformat(prefix) ELSE parse_date(prefix)

\* The name of the exception a bad timestamp raises
TimestampError(has_fromisoformat) ==
    IF has_fromisoformat THEN "ValueError" ELSE "ParseError"

evuser_mutant(data, ev) ==
    IF data["logCode"] \in {"user_joined_message", "user_left_message"}
    THEN Bound(data["username"])
    ELSE IF data["logCode"] = "meeting_started"
    THEN Bound("")
    ELSE ev

\* The if/elif on data['logCode'], once username is known to be present
\* where it is read: evuser is assigned in two branches and left as it was
\* by any other logCode
evuser_after(data, ev) ==
    IF data["logCode"] \in {"user_joined_message", "user_left_message"}
    THEN Bound(data["username"])
    ELSE IF data["logCode"] \in {"meeting_started", "meeting_ended"}
    THEN Bound("")
    ELSE ev

missing_field_mutant(data) ==
    IF "logCode" \notin DOMAIN data THEN "logCode"
    ELSE IF /\ data["logCode"] \in
                  {"user_joined_message", "user_left_message"}
            /\ "username" \notin DOMAIN data
      THEN "username"
    ELSE IF "name" \notin DOMAIN data THEN "name"
    ELSE IF "description" \notin DOMAIN data THEN "description"
    ELSE ""

\* The first key the loop body reads that data does not have, "" when it
\* has them all: data['name'], data['description'], data['logCode'], and
\* data['username'] of a user_joined_message or user_left_message
missing_field(data) ==
    IF "name" \notin DOMAIN data THEN "name"
    ELSE IF "description" \notin DOMAIN data THEN "description"
    ELSE IF "logCode" \notin DOMAIN data THEN "logCode"
    ELSE IF /\ data["logCode"] \in
                  {"user_joined_message", "user_left_message"}
            /\ "username" \notin DOMAIN data
      THEN "username"
    ELSE ""

evroom_mutant(data) == data["description"]

\* evroom = data['name']
evroom_of(data) == data["name"]

\* event = data['description']
event_of(data) == data["description"]

\* The body of parse_data's for loop on one line, with evuser as the
\* iterations before left it: the exception it raises, or the record it
\* appends and the evuser it leaves.
parse_line(line, ev, has_fromisoformat, padded) ==
    LET timestamp == ParsePrefix(Slice(line.head, 0, PrefixLen),
                                 has_fromisoformat)
        at        == SearchData(line.body)
        payload   == Group1(line.body, at)
        data      == payload[1].o
        ev2       == evuser_after(data, ev)
    IN  IF ~timestamp.ok
          THEN Raise(TimestampError(has_fromisoformat), "", ev)
        ELSE IF at = 0 THEN Raise("AttributeError", "group", ev)
        ELSE IF ~IsJson(payload) THEN Raise("JSONDecodeError", "", ev)
        ELSE IF payload[1].k # "object" THEN Raise("TypeError", "name", ev)
        ELSE IF missing_field(data) # ""
          THEN Raise("KeyError", missing_field(data), ev)
        ELSE IF ~ev2.bound THEN Raise("UnboundLocalError", "evuser", ev2)
        ELSE [exc |-> NoException,
              rec |-> [Date  |-> StrftimeDate(timestamp, padded),
                       Time  |-> StrftimeTime(timestamp),
                       Room  |-> evroom_of(data),
                       User  |-> ev2.val,
                       Event |-> event_of(data)],
              evuser |-> ev2]

-----------------------------------------------------------------------------
(* Log lines of the runs *)

\* '2021-03-04T10:15:02.123+01:00 '
HeadA ==
    <<"2","0","2","1","-","0","3","-","0","4","T","1","0",":","1","5",":","0","2",".","1","2","3","+","0","1",":","0","0"," ">>

\* '2021-12-31T23:59:59.999-05:00 '
HeadB ==
    <<"2","0","2","1","-","1","2","-","3","1","T","2","3",":","5","9",":","5","9",".","9","9","9","-","0","5",":","0","0"," ">>

\* '0999-03-04T00:30:00.000+01:00 '
HeadOldYear ==
    <<"0","9","9","9","-","0","3","-","0","4","T","0","0",":","3","0",":","0","0",".","0","0","0","+","0","1",":","0","0"," ">>

\* '2021-03-05_10:15:02.123+01:00 '
HeadUnderscore ==
    <<"2","0","2","1","-","0","3","-","0","5","_","1","0",":","1","5",":","0","2",".","1","2","3","+","0","1",":","0","0"," ">>

\* '2021-03-04T10:15:02.123 INFO  '
HeadShortStamp ==
    <<"2","0","2","1","-","0","3","-","0","4","T","1","0",":","1","5",":","0","2",".","1","2","3"," ","I","N","F","O"," "," ">>

\* '2021-02-30T10:15:02.123+01:00 '
HeadBadDay ==
    <<"2","0","2","1","-","0","2","-","3","0","T","1","0",":","1","5",":","0","2",".","1","2","3","+","0","1",":","0","0"," ">>

ObjJoinAlice ==
    [logCode |-> "user_joined_message", name |-> "Room1",
     description |-> "User joined", username |-> "alice"]

ObjJoinAliceCaps ==
    [logCode |-> "user_joined_message", name |-> "Room1",
     description |-> "User joined", username |-> "Alice"]

ObjLeftBob ==
    [logCode |-> "user_left_message", name |-> "Room2",
     description |-> "User left", username |-> "bob"]

ObjLeftAnonymous ==
    [logCode |-> "user_left_message", name |-> "Room1",
     description |-> "User left", username |-> ""]

ObjStarted ==
    [logCode |-> "meeting_started", name |-> "Room1",
     description |-> "Meeting started"]

ObjStartedBy ==
    [logCode |-> "meeting_started", name |-> "Room2",
     description |-> "Meeting started", username |-> "carol"]

ObjEnded ==
    [logCode |-> "meeting_ended", name |-> "Room1",
     description |-> "Meeting ended"]

ObjEndedUnnamed ==
    [logCode |-> "meeting_ended", name |-> "",
     description |-> "Meeting ended"]

\* A logCode that is none of the four, in a line that has one of them in
\* its description
ObjUnknown ==
    [logCode |-> "meeting_destroyed", name |-> "Room1",
     description |-> "meeting_ended", username |-> "dave"]

\* An event that is none of the four
ObjOther ==
    [logCode |-> "meeting_destroyed", name |-> "Room1",
     description |-> "Meeting destroyed"]

ObjNoName ==
    [logCode |-> "meeting_started", description |-> "Meeting started"]

ObjNoDescription == [logCode |-> "meeting_ended", name |-> "Room1"]

ObjNoLogCode == [name |-> "Room1", description |-> "user_left_message"]

ObjNoUsername ==
    [logCode |-> "user_joined_message", name |-> "Room1",
     description |-> "User joined"]

ObjOnlyLogCode == [logCode |-> "user_joined_message"]

\* ... INFO data={...}
Body(obj) == <<Word("INFO"), DataEq, Json(obj)>>

BodyNoData == <<Word("INFO"), Word("meeting_ended")>>

BodyTrailing == <<DataEq, Json(ObjStarted), Word("trailing")>>

BodyTwoData == <<DataEq, Word("x"), DataEq, Json(ObjStarted)>>

BodyArray == <<Word("user_left_message"), DataEq, JsonArray>>

BodyPlain == <<Word("INFO"), Word("hello")>>

\* The lines with one of the four markers in them
MatchedLines ==
    {Line(HeadA, Body(o)) :
        o \in {ObjJoinAlice, ObjLeftAnonymous, ObjStarted, ObjStartedBy,
               ObjEnded, ObjEndedUnnamed, ObjUnknown, ObjNoName,
               ObjNoDescription, ObjNoLogCode, ObjNoUsername,
               ObjOnlyLogCode}}
    \cup {Line(HeadA, b) :
            b \in {BodyNoData, BodyTrailing, BodyTwoData, BodyArray}}
    \cup {Line(HeadB, Body(ObjLeftBob)), Line(HeadOldYear, Body(ObjStarted)),
          Line(HeadUnderscore, Body(ObjJoinAlice)),
          Line(HeadBadDay, Body(ObjEnded))}
    \cup {Line(HeadShortStamp, b) :
            b \in {Body(ObjStarted), BodyNoData, BodyTrailing,
                   Body(ObjNoName)}}

\* The lines of the log files the main program is run on
LogLines ==
    {Line(HeadA, Body(ObjJoinAlice)), Line(HeadB, Body(ObjLeftBob)),
     Line(HeadB, Body(ObjJoinAliceCaps)), Line(HeadA, Body(ObjStarted)), Line(HeadB, Body(ObjEndedUnnamed)),
     Line(HeadA, Body(ObjUnknown)), Line(HeadA, Body(ObjOther)),
     Line(HeadA, BodyPlain), Line(HeadA, BodyNoData)}

\* The sequences over S of length lo to hi
SeqsOf(S, lo, hi) == UNION {[1..n -> S] : n \in lo..hi}

-----------------------------------------------------------------------------
(* gen_outfile_name and get_user_input *)

RECURSIVE AppendCriteria(_, _)
AppendCriteria(basename, items) ==
    IF items = <<>> THEN basename
    ELSE AppendCriteria(IF Head(items) # ""
                        THEN basename \o "-" \o Head(items) ELSE basename,
                        Tail(items))

gen_outfile_name(date, room, user) ==
    AppendCriteria(def_output_basename, <<date, room, user>>) \o ".csv"

\* The command lines: every argument is given or left to its default
CommandLines ==
    [date : {def_date, ""}, room : {def_room, "Room1"},
     user : {def_user, "alice"}, outfile : {def_output_basename, "out.csv"}]

-----------------------------------------------------------------------------
(* The report *)

Matches_mutant(rec, date, room, user) ==
    /\ (room # "" => rec.Room = room)
    /\ (user # "" => rec.User = user)

\* A record passes when every criterion that is not empty equals its field
Matches(rec, date, room, user) ==
    /\ (date # "" => rec.Date = date)
    /\ (room # "" => rec.Room = room)
    /\ (user # "" => rec.User = user)

RECURSIVE FilterRecords(_, _, _, _)
FilterRecords(recs, date, room, user) ==
    IF recs = <<>> THEN <<>>
    ELSE (IF Matches(Head(recs), date, room, user)
          THEN <<Head(recs)>> ELSE <<>>)
         \o FilterRecords(Tail(recs), date, room, user)

NoReport == [written |-> FALSE, rows |-> <<>>]

-----------------------------------------------------------------------------
(* The main program *)

Exit(code, exc) ==
    /\ pc' = "exited"
    /\ exit_code' = code
    /\ exception' = exc

\* An exception nobody catches ends the interpreter with status 1
Uncaught(exc) == Exit(1, exc)

\* Check current python version and requirements
VersionCheck ==
    /\ pc = "version_check"
    /\ IF py_version[1] # 3
         THEN Exit(1, NoException)
       ELSE IF py_version[2] < 7 /\ ~iso8601
         THEN Exit(1, NoException)
       ELSE /\ pc' = "get_user_input"
            /\ UNCHANGED <<exit_code, exception>>
    /\ UNCHANGED <<py_version, iso8601, glibc, argv, file, req_date,
                   req_room, req_user, outfile, raw_attendance, lines_left,
                   records, evuser, parsed_attendance, parse_calls, report>>

\* Get user input, or use defaults if missing
GetUserInput ==
    /\ pc = "get_user_input"
    /\ req_date' = argv.date
    /\ req_room' = argv.room
    /\ req_user' = argv.user
    /\ outfile' = IF argv.outfile = def_output_basename
                  THEN gen_outfile_name(argv.date, argv.room, argv.user)
                  ELSE argv.outfile
    /\ pc' = "read_data"
    /\ UNCHANGED <<py_version, iso8601, glibc, argv, file, raw_attendance,
                   lines_left, records, evuser, parsed_attendance,
                   parse_calls, report, exception, exit_code>>

ReadEvents_mutant ==
    /\ pc = "read_data"
    /\ IF file.status = "missing"
         THEN /\ Exit(2, NoException)
              /\ UNCHANGED raw_attendance
       ELSE IF file.status # "ok"
         THEN /\ Uncaught([type |-> file.status, arg |-> ""])
              /\ UNCHANGED raw_attendance
       ELSE /\ raw_attendance' = read_data(file.lines)
            /\ pc' = "parse_data"
            /\ UNCHANGED <<exit_code, exception>>
    /\ UNCHANGED <<py_version, iso8601, glibc, argv, file, req_date,
                   req_room, req_user, outfile, lines_left, records, evuser,
                   parsed_attendance, parse_calls, report>>

\* Read events from logfile; exit if the logfile could not be found or if
\* there were no events to parse
ReadEvents ==
    /\ pc = "read_data"
    /\ IF file.status = "missing"
         THEN /\ Exit(2, NoException)
              /\ UNCHANGED raw_attendance
       ELSE IF file.status # "ok"
         THEN /\ Uncaught([type |-> file.status, arg |-> ""])
              /\ UNCHANGED raw_attendance
       ELSE /\ raw_attendance' = read_data(file.lines)
            /\ IF Len(raw_attendance') = 0
                 THEN Exit(3, NoException)
               ELSE /\ pc' = "parse_data"
                    /\ UNCHANGED <<exit_code, exception>>
    /\ UNCHANGED <<py_version, iso8601, glibc, argv, file, req_date,
                   req_room, req_user, outfile, lines_left, records, evuser,
                   parsed_attendance, parse_calls, report>>

append_record_mutant(recs, rec) == <<rec>> \o recs

\* parsed_attendance.append(record)
append_record(recs, rec) == Append(recs, rec)

\* parse_data is called: its pattern and its empty list
ParseEnter ==
    /\ pc = "parse_data"
    /\ lines_left' = raw_attendance
    /\ records' = <<>>
    /\ evuser' = Unbound
    /\ parse_calls' = parse_calls + 1
    /\ pc' = "parse_loop"
    /\ UNCHANGED <<py_version, iso8601, glibc, argv, file, req_date,
                   req_room, req_user, outfile, raw_attendance,
                   parsed_attendance, report, exception, exit_code>>

ParseLine_mutant ==
    /\ pc = "parse_loop"
    /\ lines_left # <<>>
    /\ LET r == parse_line(Head(lines_left), evuser, py_version[2] >= 7,
                           ~glibc)
       IN  /\ evuser' = r.evuser
           /\ lines_left' = Tail(lines_left)
           /\ records' = IF r.exc # NoException THEN records
                         ELSE append_record(records, r.rec)
           /\ UNCHANGED <<pc, exit_code, exception>>
    /\ UNCHANGED <<py_version, iso8601, glibc, argv, file, req_date,
                   req_room, req_user, outfile, raw_attendance,
                   parsed_attendance, parse_calls, report>>

\* One iteration of parse_data's for loop
ParseLine ==
    /\ pc = "parse_loop"
    /\ lines_left # <<>>
    /\ LET r == parse_line(Head(lines_left), evuser, py_version[2] >= 7,
                           ~glibc)
       IN  /\ evuser' = r.evuser
           /\ IF r.exc # NoException
                THEN /\ Uncaught(r.exc)
                     /\ UNCHANGED <<records, lines_left>>
              ELSE /\ records' = append_record(records, r.rec)
                   /\ lines_left' = Tail(lines_left)
                   /\ UNCHANGED <<pc, exit_code, exception>>
    /\ UNCHANGED <<py_version, iso8601, glibc, argv, file, req_date,
                   req_room, req_user, outfile, raw_attendance,
                   parsed_attendance, parse_calls, report>>

\* parse_data returns its list to the main program
ParseReturn ==
    /\ pc = "parse_loop"
    /\ lines_left = <<>>
    /\ parsed_attendance' = Bound(records)
    /\ pc' = "write_report"
    /\ UNCHANGED <<py_version, iso8601, glibc, argv, file, req_date,
                   req_room, req_user, outfile, raw_attendance, lines_left,
                   records, evuser, parse_calls, report, exception,
                   exit_code>>

\* The records that pass the criteria are written to the report
WriteReport ==
    /\ pc = "write_report"
    /\ report' = [written |-> TRUE,
                  rows |-> FilterRecords(parsed_attendance.val, req_date,
                                         req_room, req_user)]
    /\ Exit(0, NoException)
    /\ UNCHANGED <<py_version, iso8601, glibc, argv, file, req_date,
                   req_room, req_user, outfile, raw_attendance, lines_left,
                   records, evuser, parsed_attendance, parse_calls>>

-----------------------------------------------------------------------------
(* Specifications *)

Idle ==
    /\ req_date = "" /\ req_room = "" /\ req_user = "" /\ outfile = ""
    /\ lines_left = <<>> /\ records = <<>>
    /\ evuser = Unbound
    /\ parsed_attendance = [bound |-> FALSE, val |-> <<>>]
    /\ parse_calls = 0
    /\ report = NoReport
    /\ exception = NoException
    /\ exit_code = -1

\* A run of the program on a BigBlueButton server, a Linux machine whose C
\* library is glibc
Init ==
    /\ pc = "version_check"
    /\ py_version \in {<<2, 7>>, <<3, 6>>, <<3, 7>>}
    /\ iso8601 \in (IF py_version = <<3, 6>> THEN BOOLEAN ELSE {FALSE})
    /\ glibc = TRUE
    /\ argv \in CommandLines
    /\ file \in [status : {"missing", "PermissionError"}, lines : {<<>>}]
                \cup [status : {"ok"}, lines : SeqsOf(LogLines, 0, MaxLines)]
    /\ raw_attendance = <<>>
    /\ Idle

Next ==
    \/ VersionCheck
    \/ GetUserInput
    \/ ReadEvents
    \/ ParseEnter
    \/ ParseLine
    \/ ParseReturn
    \/ WriteReport

Spec == Init /\ [][Next]_vars

\* parse_data on its own, called on any list of matched lines
InitParse ==
    /\ pc = "parse_data"
    /\ py_version \in {<<3, 6>>, <<3, 7>>}
    /\ iso8601 = TRUE
    /\ glibc \in BOOLEAN
    /\ argv = [date |-> "", room |-> "", user |-> "",
               outfile |-> def_output_basename]
    /\ file = [status |-> "ok", lines |-> <<>>]
    /\ Idle
    /\ raw_attendance \in SeqsOf(MatchedLines, 0, MaxMatched)

NextParse ==
    \/ ParseEnter
    \/ ParseLine
    \/ ParseReturn

SpecParse == InitParse /\ [][NextParse]_vars

-----------------------------------------------------------------------------
(* Properties: what they speak of *)

FourMarkers ==
    {"user_joined_message", "user_left_message", "meeting_started",
     "meeting_ended"}

\* The line has one of the four markers somewhere in its text
HasMarker(line) ==
    \E i \in 1..Len(line.body) : \E m \in FourMarkers :
        m \in TokenText(line.body[i])

\* sub is made of exactly the elements of full at the positions in keep, in
\* the order they have in full
IsSubsequenceAt(sub, full, keep) ==
    /\ Len(sub) = Cardinality(keep)
    /\ \E f \in [1..Len(sub) -> keep] :
          /\ \A a, b \in 1..Len(sub) : a < b => f[a] < f[b]
          /\ \A a \in 1..Len(sub) : sub[a] = full[f[a]]

\* read_data has returned to the main program
ReadReturned ==
    /\ file.status = "ok"
    /\ \/ pc \in {"parse_data", "parse_loop", "write_report"}
       \/ pc = "exited" /\ (exit_code \in {0, 3} \/ exception # NoException)

\* The run got past the check of the runtime's version
RuntimeAccepted ==
    py_version[1] = 3 /\ (py_version[2] >= 7 \/ iso8601)

\* The JSON object at the end of a line whose payload is one
PayloadOf(line) == line.body[Len(line.body)].o

\* The characters a..b of the line, counted from 1, as a string
Chars(line, a, b) == Join(SubSeq(line.head, a, b))

JoinLeave == {"user_joined_message", "user_left_message"}

StartEnd == {"meeting_started", "meeting_ended"}

\* The steps of the parser that fail on a line, in the order of the text
BadTimestamp(line) ==
    ~ParsePrefix(Slice(line.head, 0, PrefixLen), py_version[2] >= 7).ok

NoDataMarker(line) == \A i \in 1..Len(line.body) : line.body[i].k # "data="

BadPayload(line) ==
    LET at == CHOOSE i \in 1..Len(line.body) :
                 /\ line.body[i].k = "data="
                 /\ \A j \in 1..(i - 1) : line.body[j].k # "data="
    IN  \/ at # Len(line.body) - 1
        \/ line.body[Len(line.body)].k # "object"

Lacks(line, field) == field \notin DOMAIN PayloadOf(line)

LacksField(line) ==
    \/ Lacks(line, "name") \/ Lacks(line, "description")
    \/ Lacks(line, "logCode")
    \/ PayloadOf(line)["logCode"] \in JoinLeave /\ Lacks(line, "username")

Malformed(line) ==
    \/ BadTimestamp(line)
    \/ NoDataMarker(line)
    \/ BadPayload(line)
    \/ LacksField(line)

\* parse_data was ended by an exception
ParseAborted == pc = "exited" /\ parse_calls = 1 /\ exception # NoException

-----------------------------------------------------------------------------
(* Properties *)

\* C1: read_data returns exactly the lines of the log that have one of the
\* four markers in them, each once and in the order of the log.
C1_ReadDataSelectsMarked ==
    ReadReturned =>
        IsSubsequenceAt(raw_attendance, file.lines,
                        {i \in 1..Len(file.lines) : HasMarker(file.lines[i])})

\* C1: a log of a line with a marker and a line without has been read
C1_Witness ==
    /\ ReadReturned
    /\ Len(file.lines) = 2
    /\ Len(raw_attendance) = 1
    /\ ~HasMarker(file.lines[1])

\* C2: when parse_data returns, its list has one record per matched line,
\* and the i-th record has the time, the room and the event of the i-th line.
C2_OneRecordPerLine ==
    parsed_attendance.bound =>
        /\ Len(parsed_attendance.val) = Len(raw_attendance)
        /\ \A i \in 1..Len(raw_attendance) :
              LET rec == parsed_attendance.val[i]
                  line == raw_attendance[i]
              IN  /\ rec.Time = Chars(line, 12, 16)
                  /\ rec.Room = PayloadOf(line)["name"]
                  /\ rec.Event = PayloadOf(line)["description"]

\* C2: parse_data has returned the records of two different lines
C2_Witness ==
    /\ parsed_attendance.bound
    /\ Len(parsed_attendance.val) = 2
    /\ raw_attendance[1] # raw_attendance[2]
    /\ parsed_attendance.val[1].Event # parsed_attendance.val[2].Event

\* C3 as stated: in every record parse_data returns, User is not empty when
\* the line's logCode is user_joined_message or user_left_message, and is
\* the empty string when it is meeting_started or meeting_ended.
C3_UserEmptyIffStartEnd ==
    parsed_attendance.bound =>
        \A i \in 1..Len(parsed_attendance.val) :
            LET rec == parsed_attendance.val[i]
                code == PayloadOf(raw_attendance[i])["logCode"]
            IN  /\ code \in JoinLeave => rec.User # ""
                /\ code \in StartEnd => rec.User = ""

\* C3 amended: in every record parse_data returns, User is the payload's
\* username, whatever it is, when the line's logCode is user_joined_message
\* or user_left_message (so it is empty exactly when that username is), and
\* is the empty string when it is meeting_started or meeting_ended.
C3_UserFollowsKind ==
    parsed_attendance.bound =>
        \A i \in 1..Len(parsed_attendance.val) :
            LET rec == parsed_attendance.val[i]
                data == PayloadOf(raw_attendance[i])
            IN  /\ data["logCode"] \in JoinLeave =>
                      rec.User = data["username"]
                /\ data["logCode"] \in StartEnd => rec.User = ""

\* C3: the records of a user's event and then of a meeting's event, whose
\* payload has a username of its own, have been returned
C3_Witness ==
    /\ parsed_attendance.bound
    /\ Len(parsed_attendance.val) = 2
    /\ PayloadOf(raw_attendance[1])["logCode"] \in JoinLeave
    /\ parsed_attendance.val[1].User # ""
    /\ PayloadOf(raw_attendance[2])["logCode"] \in StartEnd
    /\ "username" \in DOMAIN PayloadOf(raw_attendance[2])
    /\ parsed_attendance.val[2].User = ""

\* C5 as stated: for every line whose first 29 characters are an ISO 8601
\* timestamp, the record's Date is the first ten of them and its Time the
\* twelfth to the sixteenth, as written.
C5_DateTimeAsWritten ==
    parsed_attendance.bound =>
        \A i \in 1..Len(parsed_attendance.val) :
            raw_attendance[i].head[11] = "T" =>
                /\ parsed_attendance.val[i].Date =
                       Chars(raw_attendance[i], 1, 10)
                /\ parsed_attendance.val[i].Time =
                       Chars(raw_attendance[i], 12, 16)

\* C7 as stated: in every record parse_data returns, Room is not empty.
C7_RoomNeverEmpty ==
    parsed_attendance.bound =>
        \A i \in 1..Len(parsed_attendance.val) :
            parsed_attendance.val[i].Room # ""

\* C7 amended: in every record parse_data returns, Room is the payload's
\* name, whatever it is: it is empty exactly when that name is.
C7_RoomIsName ==
    parsed_attendance.bound =>
        \A i \in 1..Len(parsed_attendance.val) :
            LET rec == parsed_attendance.val[i]
                data == PayloadOf(raw_attendance[i])
            IN  /\ rec.Room = data["name"]
                /\ (rec.Room = "" <=> data["name"] = "")

\* C7: records of two lines with different rooms have been returned
C7_Witness ==
    /\ parsed_attendance.bound
    /\ Len(parsed_attendance.val) = 2
    /\ parsed_attendance.val[1].Room = "Room1"
    /\ parsed_attendance.val[2].Room = "Room2"

\* C8: a line that fails to parse ends parse_data there: nothing is
\* returned, the records built so far stay in the call, the lines after the
\* failing one are not reached; and parse_data never returns a list when
\* one of its lines fails to parse.
C8_AbortsAtFirstFailure ==
    /\ parsed_attendance.bound =>
          \A i \in 1..Len(raw_attendance) : ~Malformed(raw_attendance[i])
    /\ ParseAborted =>
          /\ ~parsed_attendance.bound
          /\ parsed_attendance.val = <<>>
          /\ report = NoReport
          /\ lines_left # <<>>
          /\ Len(records) + Len(lines_left) = Len(raw_attendance)
          /\ lines_left =
                 SubSeq(raw_attendance, Len(records) + 1, Len(raw_attendance))
          /\ \A i \in 1..Len(records) : ~Malformed(raw_attendance[i])
          /\ \/ Malformed(Head(lines_left))
             \/ exception.type = "UnboundLocalError"
          /\ ~ENABLED ParseLine
          /\ ~ENABLED ParseReturn

\* C8: parse_data was ended by its second line, after a record of the first
C8_Witness ==
    /\ ParseAborted
    /\ Len(raw_attendance) = 2
    /\ Len(records) = 1
    /\ Malformed(raw_attendance[2])

\* C9: the exception that ends parse_data on a line is that of the first
\* step that fails, in the order timestamp, data= marker, payload, field
\* (name, description, logCode, username), and no two of the four steps
\* fail with the same exception.
C9_EarliestFailureReported ==
    (ParseAborted /\ Malformed(Head(lines_left))) =>
        LET line == Head(lines_left)
        IN  IF BadTimestamp(line)
              THEN exception.type \in {"ValueError", "ParseError"}
            ELSE IF NoDataMarker(line)
              THEN exception.type = "AttributeError"
            ELSE IF BadPayload(line)
              THEN exception.type \in {"JSONDecodeError", "TypeError"}
            ELSE /\ exception.type = "KeyError"
                 /\ exception.arg =
                       (IF Lacks(line, "name") THEN "name"
                        ELSE IF Lacks(line, "description")
                          THEN "description"
                        ELSE IF Lacks(line, "logCode") THEN "logCode"
                        ELSE "username")

\* C9: parse_data was ended by a line with a bad timestamp and no payload
C9_Witness ==
    /\ ParseAborted
    /\ BadTimestamp(Head(lines_left))
    /\ NoDataMarker(Head(lines_left))
    /\ exception.type = "ValueError"

\* C10: every record is the one its line gives when parsed as the first
\* line: a line parses to the same outcome wherever it stands.
C10_RecordFromOwnLineOnly ==
    \A i \in 1..Len(records) :
        LET alone == parse_line(raw_attendance[i], Unbound,
                                py_version[2] >= 7, ~glibc)
        IN  /\ alone.exc = NoException
            /\ alone.rec = records[i]

\* C4: the rows of the report are exactly the parsed records in which every
\* criterion that is not empty equals the field, in the order they were
\* parsed: all of them when the three criteria are empty, and only records
\* of that date when a date is given.
C4_FilterIsExact ==
    report.written =>
        /\ IsSubsequenceAt(report.rows, parsed_attendance.val,
              {i \in 1..Len(parsed_attendance.val) :
                  LET rec == parsed_attendance.val[i]
                  IN  /\ req_date = "" \/ rec.Date = req_date
                      /\ req_room = "" \/ rec.Room = req_room
                      /\ req_user = "" \/ rec.User = req_user})
        /\ (req_date = "" /\ req_room = "" /\ req_user = "") =>
              report.rows = parsed_attendance.val
        /\ req_date # "" =>
              \A k \in 1..Len(report.rows) : report.rows[k].Date = req_date

\* C4: a report for a date and for user alice has been written that keeps
\* one record and drops the record of user Alice
C4_Witness ==
    /\ report.written
    /\ req_user = "alice"
    /\ req_date # ""
    /\ Len(report.rows) = 1
    /\ Len(parsed_attendance.val) = 2
    /\ \E i \in 1..2 : parsed_attendance.val[i].User = "Alice"

\* What C6 says of a run that has ended
ExitsAsClaimed ==
    /\ file.status = "missing" =>
          exit_code = 2 /\ parse_calls = 0 /\ report = NoReport
    /\ (/\ file.status = "ok"
        /\ \A i \in 1..Len(file.lines) : ~HasMarker(file.lines[i])) =>
          exit_code = 3 /\ parse_calls = 0 /\ report = NoReport

\* A bound on the steps the run has still to take: a run whose every step
\* lowers it comes to its end
StepsLeft ==
    CASE pc = "version_check" -> 6 + Len(file.lines)
      [] pc = "get_user_input" -> 5 + Len(file.lines)
      [] pc = "read_data" -> 4 + Len(file.lines)
      [] pc = "parse_data" -> 3 + Len(raw_attendance)
      [] pc = "parse_loop" -> 2 + Len(lines_left)
      [] pc = "write_report" -> 1
      [] pc = "exited" -> 0

====
